---- MODULE Spec2Model ----
(***************************************************************************)
(* Model of js/api.js: the Firestore-backed store operations of the        *)
(* point-of-sale application (loadData, saveData, saveShift,               *)
(* addDefectiveItem, saveNewInvoice) run by several browser sessions       *)
(* against one Firestore database.                                         *)
(*                                                                         *)
(* Every `await` of the source is a separate step, so the sessions         *)
(* interleave exactly at the suspension points of the code.  Firestore     *)
(* transactions are modelled as the JS SDK (10.12.2) runs them: reads are  *)
(* served by the backend, writes are buffered and sent with preconditions  *)
(* at commit, a failed precondition re-runs the update function, and a     *)
(* read issued after a buffered write is rejected.                         *)
(***************************************************************************)
EXTENDS Integers, Sequences, FiniteSets, TLC

VARIABLES
    db,       \* Firestore collections: collection name -> (document id -> data)
    config,   \* the document app_config/main
    now,      \* the millisecond clock read by Date.now()
    state,    \* per session: the in-memory working set of state.js
    call,     \* per session: the api.js call in progress, its argument and result
    txn,      \* per session: the running Firestore transaction or write batch
    stale,    \* per session: documents read by the transaction and written since
    local,    \* per session: the local variables of the call in progress
    ncalls    \* number of api.js calls started so far

vars == <<db, config, now, state, call, txn, stale, local, ncalls>>

----------------------------------------------------------------------------
(* Bounds of the model *)

MaxCalls == 2
MaxNow == 1
SuffixMod == 2

(* Firestore SDK default number of attempts of runTransaction *)
MaxAttempts == 5

Clients == {"c1", "c2"}

----------------------------------------------------------------------------
(* Finite maps: a collection is a function from the ids of its documents *)

EmptyMap == [x \in {} |-> 0]

Put(m, k, v) == [x \in (DOMAIN m) \cup {k} |-> IF x = k THEN v ELSE m[x]]

Drop(m, k) == [x \in (DOMAIN m) \ {k} |-> m[x]]

Has(m, k) == k \in DOMAIN m

----------------------------------------------------------------------------
(* Products and their variants *)

\* product.colors?.[color]?.sizes?.[size]?.quantity || 0
CurrentQty(product, color, size) ==
    IF /\ Has(product, "colors")
       /\ Has(product.colors, color)
       /\ Has(product.colors[color], size)
    THEN product.colors[color][size]
    ELSE 0

\* update(ref, { [`colors.${color}.sizes.${size}.quantity`]: value }) on the
\* data of a document: the nested field is set, missing parents are created
SetQty(product, color, size, value) ==
    LET colors == IF Has(product, "colors") THEN product.colors ELSE EmptyMap
        sizes  == IF Has(colors, color) THEN colors[color] ELSE EmptyMap
    IN  Put(product, "colors", Put(colors, color, Put(sizes, size, value)))

----------------------------------------------------------------------------
(* Firestore documents, write batches and transactions *)

\* a document is addressed by <<collection, id>>
Exists(d, key) == Has(d[key[1]], key[2])

DocData(d, key) == d[key[1]][key[2]]

\* one buffered write applied to the database
ApplyOne(d, m) ==
    LET coll == m.key[1]
        id   == m.key[2]
    IN  CASE m.type = "set"    -> [d EXCEPT ![coll] = Put(@, id, m.data)]
          [] m.type = "update" ->
                [d EXCEPT ![coll] = Put(@, id, SetQty(@[id], m.color, m.size, m.value))]
          [] m.type = "delete" -> [d EXCEPT ![coll] = Drop(@, id)]
          [] OTHER             -> d

RECURSIVE ApplyAll(_, _)
ApplyAll(d, muts) ==
    IF muts = <<>> THEN d ELSE ApplyAll(ApplyOne(d, Head(muts)), Tail(muts))

\* batch.set(configRef, {..., lastShiftReportTime}, {merge: true}) and
\* setDoc(configRef, {lastShiftReportTime}, {merge: true}): the named field
\* is overwritten, the other fields of the document are kept
MergeConfig(cfg, muts) ==
    LET sel == SelectSeq(muts, LAMBDA m : m.type = "config")
    IN  IF sel = <<>> THEN cfg
        ELSE [cfg EXCEPT !.lastShiftReportTime = sel[Len(sel)].lastShiftReportTime]

\* the documents a commit writes (their update time changes)
Touched(muts) == {muts[i].key : i \in {j \in 1..Len(muts) : muts[j].type # "config"}}

\* the write preconditions the server evaluates, in order, at commit
RECURSIVE PreconditionsHold(_, _, _)
PreconditionsHold(d, muts, stl) ==
    IF muts = <<>> THEN TRUE
    ELSE LET m == Head(muts)
             ok == CASE m.pre = "unchanged" -> m.key \notin stl /\ Exists(d, m.key)
                     [] m.pre = "absent"    -> m.key \notin stl /\ ~Exists(d, m.key)
                     [] m.pre = "exists"    -> Exists(d, m.key)
                     [] OTHER               -> TRUE
         IN  ok /\ PreconditionsHold(ApplyOne(d, m), Tail(muts), stl)

CommitUnchecked(d, t, stl) == TRUE

\* Transaction.commit: every document read and not written is verified
\* unchanged, every write carries its precondition
CommitOk(d, t, stl) ==
    /\ \A key \in (DOMAIN t.reads) \ t.written : key \notin stl
    /\ PreconditionsHold(d, t.mutations, stl)

\* precondition of transaction.update: the version read, or existence when
\* the document was not read or was already written in this transaction
UpdatePre(t, key) ==
    IF key \notin t.written /\ Has(t.reads, key)
    THEN IF t.reads[key] THEN "unchanged" ELSE "missing"
    ELSE "exists"

\* precondition of transaction.set
SetPre(t, key) ==
    IF key \notin t.written /\ Has(t.reads, key)
    THEN IF t.reads[key] THEN "unchanged" ELSE "absent"
    ELSE "none"

\* transaction.update / transaction.set buffer one write
Buffer(t, m) ==
    [t EXCEPT !.mutations = Append(@, m), !.written = @ \cup {m.key}]

TxUpdate(t, key, color, size, value) ==
    Buffer(t, [type |-> "update", key |-> key, color |-> color, size |-> size,
               value |-> value, pre |-> UpdatePre(t, key)])

TxSet(t, key, data) ==
    Buffer(t, [type |-> "set", key |-> key, data |-> data, pre |-> SetPre(t, key)])

\* transaction.get records the version read
TxRead(t, d, key) == [t EXCEPT !.reads = Put(@, key, Exists(d, key))]

NoTxn == [attempts |-> 0, reads |-> EmptyMap, written |-> {}, mutations |-> <<>>]

\* runTransaction: the runner starts with maxAttempts and takes one for the
\* first run
NewTxn == [NoTxn EXCEPT !.attempts = MaxAttempts - 1]

\* a failed attempt is re-run with a fresh Transaction object
RetryTxn(t) == [NoTxn EXCEPT !.attempts = t.attempts - 1]

\* documents written by session c become stale for the transactions of the
\* other sessions that have read them
MarkStale(c, keys) ==
    [x \in Clients |->
        IF x = c THEN {} ELSE stale[x] \cup (keys \cap DOMAIN txn[x].reads)]

----------------------------------------------------------------------------
(* Calls *)

NoArg == [none |-> TRUE]
NoResult == [pending |-> TRUE]

Idle == [op |-> "none", pc |-> "done", arg |-> NoArg, result |-> NoResult]

NoLocal == [none |-> TRUE]

CanStart(c) == call[c].pc = "done" /\ ncalls < MaxCalls

Begin(c, opname, a, first) ==
    /\ CanStart(c)
    /\ call' = [call EXCEPT ![c] = [op |-> opname, pc |-> first, arg |-> a,
                                    result |-> NoResult]]
    /\ ncalls' = ncalls + 1

\* the call returns res to its caller
Finish(c, res) ==
    call' = [call EXCEPT ![c].pc = "done", ![c].arg = NoArg, ![c].result = res]

Goto(c, label) == call' = [call EXCEPT ![c].pc = label]

At(c, opname, label) == call[c].op = opname /\ call[c].pc = label

----------------------------------------------------------------------------
(* Inputs *)

\* the product stored before the sessions start: 5 of (red, M) in stock,
\* no (red, L) variant yet
Shirt ==
    [id |-> "p1", name |-> "shirt", purchasePrice |-> 20,
     colors |-> [red |-> [M |-> 5]]]

\* the payload of a product that is not stored yet
Cap ==
    [id |-> "p2", name |-> "cap", purchasePrice |-> 50,
     colors |-> [red |-> [M |-> 0]]]

Defect(id, pid, size, q) ==
    [id |-> id, productId |-> pid, color |-> "red", size |-> size, quantity |-> q]

\* defectData of addDefectiveItem
DefectInputs ==
    {Defect("d1", "p1", "M", q) : q \in {-1, 2, 3}}
    \cup {Defect("d2", "p1", "M", 3)}
    \cup {Defect("d2", "p1", "L", q) : q \in {0, 1}}
    \cup {Defect("d2", "p2", "M", 1)}

\* the date of an invoice, a string of characters
Date1 == <<"2", "4", "-", "0", "1">>

Line(pid, quantities) ==
    [productId |-> pid, isNew |-> FALSE, quantities |-> quantities]

NewLine(payload, quantities) ==
    [productId |-> payload.id, isNew |-> TRUE, productData |-> payload,
     quantities |-> quantities]

PayloadLine(payload, quantities) ==
    [productId |-> payload.id, isNew |-> FALSE, productData |-> payload,
     quantities |-> quantities]

Invoice(items) ==
    [supplierId |-> "s1", date |-> Date1, shippingCost |-> 7, items |-> items]

\* a new product, 10 @ 50, and a stored product, 5 @ 20 of a variant not in
\* stock
NewAndExistingInvoice ==
    Invoice(<< NewLine(Cap, << <<"red", "M", 10>> >>),
               Line("p1", << <<"red", "L", 5>> >>) >>)

\* invoiceData of saveNewInvoice; item.quantities is listed in the order
\* Object.entries walks it, as <<color, size, quantity>>
InvoiceInputs ==
    { Invoice(<< Line("p1", << <<"red", "M", 1>>, <<"red", "L", 2>> >>) >>),
      Invoice(<< Line("p1", << <<"red", "M", 0>> >>),
                 Line("p1", << <<"red", "M", 1>> >>) >>),
      NewAndExistingInvoice,
      Invoice(<< Line("p1", << <<"red", "M", 1>> >>),
                 Line("p1", << <<"red", "M", 1>> >>) >>),
      Invoice(<< Line("p1", << <<"red", "M", 0>> >>),
                 Line("p2", << <<"red", "M", 1>> >>) >>),
      Invoice(<< PayloadLine(Cap, << <<"red", "M", 0>> >>) >>),
      Invoice(<< PayloadLine(Cap, << <<"red", "M", 1>> >>) >>) }

----------------------------------------------------------------------------
(* addDefectiveItem, src/js/api.js:167-196 *)

InsufficientOffByOne(quantity, currentQty) == quantity > currentQty + 1

InsufficientOrEqual(quantity, currentQty) == quantity >= currentQty

\* if (defectData.quantity > currentQty) throw
Insufficient(quantity, currentQty) == quantity > currentQty

StartDefect(c) ==
    \E d \in DefectInputs :
        /\ Begin(c, "addDefectiveItem", d, "get")
        /\ txn' = [txn EXCEPT ![c] = NewTxn]
        /\ stale' = [stale EXCEPT ![c] = {}]
        /\ UNCHANGED <<db, config, now, state, local>>

\* the update function up to its end: transaction.get, the two checks, the
\* two buffered writes
DefectBody(c) ==
    /\ At(c, "addDefectiveItem", "get")
    /\ LET d   == call[c].arg
           key == <<"products", d.productId>>
           t   == TxRead(txn[c], db, key)
       IN  IF ~Exists(db, key)
           THEN /\ Finish(c, [success |-> FALSE, error |-> "ProductNotFound"])
                /\ txn' = [txn EXCEPT ![c] = NoTxn]
           ELSE LET currentQty == CurrentQty(DocData(db, key), d.color, d.size)
                IN  IF Insufficient(d.quantity, currentQty)
                    THEN /\ Finish(c, [success |-> FALSE, error |-> "InsufficientStock"])
                         /\ txn' = [txn EXCEPT ![c] = NoTxn]
                    ELSE /\ Goto(c, "commit")
                         /\ txn' = [txn EXCEPT ![c] =
                               TxSet(TxUpdate(t, key, d.color, d.size,
                                              currentQty - d.quantity),
                                     <<"defects", d.id>>, d)]
    /\ stale' = [stale EXCEPT ![c] = {}]
    /\ UNCHANGED <<db, config, now, state, local, ncalls>>

\* the commit of the transaction succeeds
DefectCommit(c) ==
    /\ At(c, "addDefectiveItem", "commit")
    /\ CommitOk(db, txn[c], stale[c])
    /\ db' = ApplyAll(db, txn[c].mutations)
    /\ stale' = MarkStale(c, Touched(txn[c].mutations))
    /\ txn' = [txn EXCEPT ![c] = NoTxn]
    /\ Finish(c, [success |-> TRUE])
    /\ UNCHANGED <<config, now, state, local, ncalls>>

\* the commit fails on a precondition: the update function is run again
\* while attempts remain, otherwise the error reaches the catch block
DefectConflict(c) ==
    /\ At(c, "addDefectiveItem", "commit")
    /\ ~CommitOk(db, txn[c], stale[c])
    /\ IF txn[c].attempts > 0
       THEN /\ Goto(c, "get")
            /\ txn' = [txn EXCEPT ![c] = RetryTxn(txn[c])]
       ELSE /\ Finish(c, [success |-> FALSE, error |-> "FailedPrecondition"])
            /\ txn' = [txn EXCEPT ![c] = NoTxn]
    /\ stale' = [stale EXCEPT ![c] = {}]
    /\ UNCHANGED <<db, config, now, state, local, ncalls>>

----------------------------------------------------------------------------
(* saveNewInvoice, src/js/api.js:200-252 *)

\* date.replace(/-/g, '')
RemoveDashes(date) == SelectSeq(date, LAMBDA ch : ch # "-")

\* Date.now().toString().slice(-5): the low digits of the clock
ClockSuffix(t) == t % SuffixMod

\* `SH${date.replace(/-/g, '')}-${Date.now().toString().slice(-5)}`
ShipmentId(date, t) == <<"SH", RemoveDashes(date), "-", ClockSuffix(t)>>

LineCostWithShipping(quantity, purchasePrice) == quantity * purchasePrice + 7

\* quantity * productData.purchasePrice
LineCost(quantity, purchasePrice) == quantity * purchasePrice

\* the loops over Object.entries(item.quantities): for every quantity > 0
\* one buffered update, one addition to totalInvoiceCost and one pushed item.
\* acc = [t, items, total, err]; an update of a document read as missing
\* throws and ends the loops.
RECURSIVE AddQuantities(_, _, _, _)
AddQuantities(acc, pid, productData, quantities) ==
    IF quantities = <<>> \/ acc.err # "" THEN acc
    ELSE LET q        == Head(quantities)
             color    == q[1]
             size     == q[2]
             quantity == q[3]
             key      == <<"products", pid>>
             currentQty == CurrentQty(productData, color, size)
             newQty   == currentQty + quantity
             next ==
                IF quantity > 0
                THEN IF UpdatePre(acc.t, key) = "missing"
                     THEN [acc EXCEPT !.err = "NoDocumentToUpdate"]
                     ELSE [acc EXCEPT
                             !.t = TxUpdate(@, key, color, size, newQty),
                             !.total = @ + LineCost(quantity, productData.purchasePrice),
                             !.items = Append(@,
                                [productId |-> pid,
                                 productName |-> productData.name,
                                 color |-> color, size |-> size,
                                 quantity |-> quantity,
                                 purchasePrice |-> productData.purchasePrice])]
                ELSE acc
         IN  AddQuantities(next, pid, productData, Tail(quantities))

\* after the loop over the items: newShipment.totalCost and the buffered
\* set of the shipment record
CloseShipment(t, loc, inv) ==
    TxSet(t, <<"shipments", loc.shipmentId>>,
          [id |-> loc.shipmentId, supplierId |-> inv.supplierId,
           date |-> inv.date, shippingCost |-> inv.shippingCost,
           items |-> loc.items, totalCost |-> loc.total])

StartInvoice(c) ==
    \E inv \in InvoiceInputs :
        /\ Begin(c, "saveNewInvoice", inv, "item")
        /\ txn' = [txn EXCEPT ![c] = NewTxn]
        /\ stale' = [stale EXCEPT ![c] = {}]
        /\ local' = [local EXCEPT ![c] =
              [shipmentId |-> ShipmentId(inv.date, now), items |-> <<>>,
               total |-> 0, idx |-> 1]]
        /\ UNCHANGED <<db, config, now, state>>

AbortKeepsWrites(d, t) == ApplyAll(d, t.mutations)

\* an error thrown inside runTransaction: the buffered writes are dropped
Abort(d, t) == d

\* the catch block: the call returns failure
InvoiceFail(c, t, msg) ==
    /\ Finish(c, [success |-> FALSE, message |-> msg])
    /\ db' = Abort(db, t)
    /\ txn' = [txn EXCEPT ![c] = NoTxn]
    /\ stale' = [stale EXCEPT ![c] = {}]
    /\ UNCHANGED local

\* an attempt aborted by the SDK: run the update function again from the
\* first item; newShipment and totalInvoiceCost live outside the update
\* function and keep what the earlier attempts put in them
InvoiceRetry(c, msg) ==
    IF txn[c].attempts > 0
    THEN /\ Goto(c, "item")
         /\ db' = db
         /\ txn' = [txn EXCEPT ![c] = RetryTxn(txn[c])]
         /\ stale' = [stale EXCEPT ![c] = {}]
         /\ local' = [local EXCEPT ![c].idx = 1]
    ELSE InvoiceFail(c, txn[c], msg)

\* one pass of the loop over the items, from the creation of a new product
\* through transaction.get to the end of the quantity loops
InvoiceItem(c) ==
    /\ At(c, "saveNewInvoice", "item")
    /\ LET inv  == call[c].arg
           loc  == local[c]
           item == inv.items[loc.idx]
           key  == <<"products", item.productId>>
           t0   == IF item.isNew
                   THEN TxSet(txn[c], <<"products", item.productData.id>>,
                              item.productData)
                   ELSE txn[c]
       IN  IF t0.mutations # <<>>
           THEN \* reads must come before writes
                InvoiceFail(c, t0, "ReadAfterWrite")
           ELSE IF Has(t0.reads, key) /\ key \in stale[c]
           THEN \* the document changed between two reads
                InvoiceRetry(c, "Aborted")
           ELSE IF ~Exists(db, key) /\ ~Has(item, "productData")
           THEN InvoiceFail(c, t0, "ProductNotFound")
           ELSE LET productData == IF Exists(db, key) THEN DocData(db, key)
                                   ELSE item.productData
                    acc == AddQuantities(
                              [t |-> TxRead(t0, db, key), items |-> loc.items,
                               total |-> loc.total, err |-> ""],
                              item.productId, productData, item.quantities)
                    loc2 == [loc EXCEPT !.items = acc.items, !.total = acc.total,
                                        !.idx = @ + 1]
                IN  IF acc.err # ""
                    THEN InvoiceFail(c, acc.t, acc.err)
                    ELSE /\ local' = [local EXCEPT ![c] = loc2]
                         /\ db' = db
                         /\ stale' = stale
                         /\ IF loc.idx = Len(inv.items)
                            THEN /\ Goto(c, "commit")
                                 /\ txn' = [txn EXCEPT ![c] =
                                       CloseShipment(acc.t, loc2, inv)]
                            ELSE /\ Goto(c, "item")
                                 /\ txn' = [txn EXCEPT ![c] = acc.t]
    /\ UNCHANGED <<config, now, state, ncalls>>

InvoiceCommit(c) ==
    /\ At(c, "saveNewInvoice", "commit")
    /\ CommitOk(db, txn[c], stale[c])
    /\ db' = ApplyAll(db, txn[c].mutations)
    /\ stale' = MarkStale(c, Touched(txn[c].mutations))
    /\ txn' = [txn EXCEPT ![c] = NoTxn]
    /\ Finish(c, [success |-> TRUE, id |-> local[c].shipmentId])
    /\ UNCHANGED <<config, now, state, local, ncalls>>

InvoiceConflict(c) ==
    /\ At(c, "saveNewInvoice", "commit")
    /\ ~CommitOk(db, txn[c], stale[c])
    /\ InvoiceRetry(c, "FailedPrecondition")
    /\ UNCHANGED <<config, now, state, ncalls>>

----------------------------------------------------------------------------
(* saveDailyExpense, updateDailyExpense, deleteDailyExpense,
   src/js/api.js:126-153 *)

Expense(id, amount) == [id |-> id, amount |-> amount]

\* the three calls with their arguments
ExpenseInputs ==
    { <<"saveDailyExpense", Expense("e1", 10)>>,
      <<"updateDailyExpense", Expense("e1", 20)>>,
      <<"deleteDailyExpense", "e1">> }

\* const { id, ...dataToUpdate } = expenseData
WithoutId(data) == [f \in (DOMAIN data) \ {"id"} |-> data[f]]

\* updateDoc(ref, dataToUpdate): the fields given are overwritten, the
\* others are kept
UpdateFields(old, upd) ==
    [f \in (DOMAIN old) \cup (DOMAIN upd) |-> IF f \in DOMAIN upd THEN upd[f] ELSE old[f]]

StartExpense(c) ==
    \E in \in ExpenseInputs :
        /\ Begin(c, in[1], in[2], "write")
        /\ UNCHANGED <<db, config, now, state, txn, stale, local>>

\* await setDoc(docRef, expenseData)
SaveExpense(c) ==
    /\ At(c, "saveDailyExpense", "write")
    /\ db' = [db EXCEPT !.daily_expenses = Put(@, call[c].arg.id, call[c].arg)]
    /\ Finish(c, [success |-> TRUE])
    /\ UNCHANGED <<config, now, state, txn, stale, local, ncalls>>

\* await updateDoc(doc(db, "daily_expenses", id), dataToUpdate): rejected
\* when the document does not exist
UpdateExpense(c) ==
    /\ At(c, "updateDailyExpense", "write")
    /\ LET id == call[c].arg.id
       IN  IF Has(db.daily_expenses, id)
           THEN /\ db' = [db EXCEPT !.daily_expenses =
                            Put(@, id, UpdateFields(@[id], WithoutId(call[c].arg)))]
                /\ Finish(c, [success |-> TRUE])
           ELSE /\ db' = db
                /\ Finish(c, [success |-> FALSE, message |-> "NotFound"])
    /\ UNCHANGED <<config, now, state, txn, stale, local, ncalls>>

\* await deleteDoc(doc(db, "daily_expenses", expenseId))
DeleteExpense(c) ==
    /\ At(c, "deleteDailyExpense", "write")
    /\ db' = [db EXCEPT !.daily_expenses = Drop(@, call[c].arg)]
    /\ Finish(c, [success |-> TRUE])
    /\ UNCHANGED <<config, now, state, txn, stale, local, ncalls>>

\* the write is rejected by the store: the catch block returns failure
ExpenseError(c) ==
    /\ call[c].op \in {"saveDailyExpense", "updateDailyExpense", "deleteDailyExpense"}
    /\ call[c].pc = "write"
    /\ Finish(c, [success |-> FALSE, message |-> "StoreError"])
    /\ UNCHANGED <<db, config, now, state, txn, stale, local, ncalls>>

----------------------------------------------------------------------------
(* saveShift, src/js/api.js:155-164 *)

ShiftIds == {"s1", "s2"}

\* shiftData: the caller closes the shift at the current time
StartShift(c) ==
    \E id \in ShiftIds :
        /\ Begin(c, "saveShift", [id |-> id, endedAt |-> now], "shift")
        /\ UNCHANGED <<db, config, now, state, txn, stale, local>>

\* await setDoc(doc(db, "shifts", shiftData.id), shiftData)
ShiftSetShift(c) ==
    /\ At(c, "saveShift", "shift")
    /\ db' = ApplyOne(db, [type |-> "set", key |-> <<"shifts", call[c].arg.id>>,
                           data |-> call[c].arg, pre |-> "none"])
    /\ Goto(c, "marker")
    /\ UNCHANGED <<config, now, state, txn, stale, local, ncalls>>

\* await setDoc(doc(db, "app_config", "main"), {lastShiftReportTime}, {merge: true})
ShiftSetMarker(c) ==
    /\ At(c, "saveShift", "marker")
    /\ config' = MergeConfig(config,
                    <<[type |-> "config", lastShiftReportTime |-> call[c].arg.endedAt]>>)
    /\ Finish(c, [success |-> TRUE])
    /\ UNCHANGED <<db, now, state, txn, stale, local, ncalls>>

\* either setDoc is rejected by the store: the catch block returns failure
ShiftError(c) ==
    /\ call[c].op = "saveShift"
    /\ call[c].pc \in {"shift", "marker"}
    /\ Finish(c, [success |-> FALSE, message |-> "StoreError"])
    /\ UNCHANGED <<db, config, now, state, txn, stale, local, ncalls>>

----------------------------------------------------------------------------
(* loadData, src/js/api.js:40-72 *)

\* the collections of the model, in the order loadData and saveData walk them
Collections == <<"products", "defects", "shipments", "shifts", "daily_expenses">>

\* { id: doc.id, ...doc.data() }
WithId(id, data) ==
    [f \in (DOMAIN data) \cup {"id"} |-> IF f \in DOMAIN data THEN data[f] ELSE id]

\* snapshot.docs.map(...): the documents of a collection as an array
RECURSIVE DocsOf(_)
DocsOf(coll) ==
    IF DOMAIN coll = {} THEN <<>>
    ELSE LET id == CHOOSE x \in DOMAIN coll : TRUE
         IN  <<WithId(id, coll[id])>> \o DocsOf(Drop(coll, id))

\* the data loadData returns when no other session writes while it runs
Snapshot(d, cfg) ==
    [products  |-> DocsOf(d.products),
     defects   |-> DocsOf(d.defects),
     shipments |-> DocsOf(d.shipments),
     shifts    |-> DocsOf(d.shifts),
     daily_expenses |-> DocsOf(d.daily_expenses),
     lastShiftReportTime |-> cfg.lastShiftReportTime]

StartLoad(c) ==
    /\ Begin(c, "loadData", NoArg, "read")
    /\ local' = [local EXCEPT ![c] = [idx |-> 1, data |-> EmptyMap]]
    /\ UNCHANGED <<db, config, now, state, txn, stale>>

\* await getDocs(collection(db, coll)) for the next collection
LoadCollection(c) ==
    /\ At(c, "loadData", "read")
    /\ LET coll == Collections[local[c].idx]
       IN  local' = [local EXCEPT ![c].idx = @ + 1,
                                  ![c].data = Put(@, coll, DocsOf(db[coll]))]
    /\ IF local[c].idx = Len(Collections) THEN Goto(c, "config") ELSE Goto(c, "read")
    /\ UNCHANGED <<db, config, now, state, txn, stale, ncalls>>

\* await getDoc(app_config/main); the data returned becomes the working set
LoadConfig(c) ==
    /\ At(c, "loadData", "config")
    /\ LET data == Put(local[c].data, "lastShiftReportTime", config.lastShiftReportTime)
       IN  /\ state' = [state EXCEPT ![c] = data]
           /\ Finish(c, data)
    /\ local' = [local EXCEPT ![c] = NoLocal]
    /\ UNCHANGED <<db, config, now, txn, stale, ncalls>>

----------------------------------------------------------------------------
(* saveData, src/js/api.js:77-123 *)

\* if (item.id)
HasId(item) == Has(item, "id") /\ item.id # ""

\* the loop ends at the first item without an id
RECURSIVE SetItemsStopAtMissing(_, _)
SetItemsStopAtMissing(coll, items) ==
    IF items = <<>> \/ ~HasId(Head(items)) THEN <<>>
    ELSE <<[type |-> "set", key |-> <<coll, Head(items).id>>,
            data |-> Head(items), pre |-> "none"]>>
         \o SetItemsStopAtMissing(coll, Tail(items))

\* collData.forEach: a set for every item with an id
RECURSIVE SetItems(_, _)
SetItems(coll, items) ==
    IF items = <<>> THEN <<>>
    ELSE (IF HasId(Head(items))
          THEN <<[type |-> "set", key |-> <<coll, Head(items).id>>,
                  data |-> Head(items), pre |-> "none"]>>
          ELSE <<>>) \o SetItems(coll, Tail(items))

LeftoverIdsAll(existingIds, items) == existingIds

\* existingIds after existingIds.delete(item.id) for every item with an id
LeftoverIds(existingIds, items) ==
    existingIds \ {items[i].id : i \in {j \in 1..Len(items) : HasId(items[j])}}

\* existingIds.forEach: a delete for every id left
RECURSIVE DeleteIds(_, _)
DeleteIds(coll, ids) ==
    IF ids = {} THEN <<>>
    ELSE LET id == CHOOSE x \in ids : TRUE
         IN  <<[type |-> "delete", key |-> <<coll, id>>, pre |-> "none"]>>
             \o DeleteIds(coll, ids \ {id})

\* the writes the loop body adds to the batch for one collection, given
\* the ids getDocs found
SyncCollection(coll, existingIds, items) ==
    SetItems(coll, items) \o DeleteIds(coll, LeftoverIds(existingIds, items))

\* batch.set(configRef, {..., lastShiftReportTime: state.lastShiftReportTime},
\* {merge: true})
ConfigWrite(mem) ==
    <<[type |-> "config", lastShiftReportTime |-> mem.lastShiftReportTime]>>

\* the batch of a saveData that runs with no other writer: every getDocs
\* sees the same store d
RECURSIVE SyncFrom(_, _, _)
SyncFrom(i, d, mem) ==
    IF i > Len(Collections) THEN <<>>
    ELSE SyncCollection(Collections[i], DOMAIN d[Collections[i]], mem[Collections[i]])
         \o SyncFrom(i + 1, d, mem)

SaveBatch(d, mem) == ConfigWrite(mem) \o SyncFrom(1, d, mem)

\* the store after such a saveData
SaveDataAlone(st, mem) ==
    [db |-> ApplyAll(st.db, SaveBatch(st.db, mem)),
     config |-> MergeConfig(st.config, SaveBatch(st.db, mem))]

\* writeBatch and the batch.set of the config document
StartSave(c) ==
    /\ Begin(c, "saveData", NoArg, "sync")
    /\ txn' = [txn EXCEPT ![c] = [NoTxn EXCEPT !.mutations = ConfigWrite(state[c])]]
    /\ local' = [local EXCEPT ![c] = [idx |-> 1]]
    /\ UNCHANGED <<db, config, now, state, stale>>

\* await getDocs(collection(db, collName)) and the writes batched after it
SaveCollection(c) ==
    /\ At(c, "saveData", "sync")
    /\ LET coll == Collections[local[c].idx]
       IN  txn' = [txn EXCEPT ![c].mutations =
                      @ \o SyncCollection(coll, DOMAIN db[coll], state[c][coll])]
    /\ local' = [local EXCEPT ![c].idx = @ + 1]
    /\ IF local[c].idx = Len(Collections) THEN Goto(c, "commit") ELSE Goto(c, "sync")
    /\ UNCHANGED <<db, config, now, state, stale, ncalls>>

\* await batch.commit(): all the writes of the batch are applied at once;
\* saveData returns nothing
SaveCommit(c) ==
    /\ At(c, "saveData", "commit")
    /\ db' = ApplyAll(db, txn[c].mutations)
    /\ config' = MergeConfig(config, txn[c].mutations)
    /\ stale' = MarkStale(c, Touched(txn[c].mutations))
    /\ txn' = [txn EXCEPT ![c] = NoTxn]
    /\ local' = [local EXCEPT ![c] = NoLocal]
    /\ Finish(c, [undefined |-> TRUE])
    /\ UNCHANGED <<now, state, ncalls>>

\* the clock advances
Tick ==
    /\ now < MaxNow
    /\ now' = now + 1
    /\ UNCHANGED <<db, config, state, call, txn, stale, local, ncalls>>

----------------------------------------------------------------------------

\* the store when the sessions start: one product, no shift closed since
\* time 0
InitDb ==
    [products  |-> [p1 |-> Shirt],
     defects   |-> EmptyMap,
     shipments |-> EmptyMap,
     shifts    |-> EmptyMap,
     daily_expenses |-> EmptyMap]

InitConfig == [lastShiftReportTime |-> 0]

\* every session has loaded the store at start-up
Init ==
    /\ db = InitDb
    /\ config = InitConfig
    /\ now = 0
    /\ state = [c \in Clients |-> Snapshot(InitDb, InitConfig)]
    /\ call = [c \in Clients |-> Idle]
    /\ txn = [c \in Clients |-> NoTxn]
    /\ stale = [c \in Clients |-> {}]
    /\ local = [c \in Clients |-> NoLocal]
    /\ ncalls = 0

Next ==
    \/ Tick
    \/ \E c \in Clients :
            \/ StartDefect(c)
            \/ DefectBody(c)
            \/ DefectCommit(c)
            \/ DefectConflict(c)
            \/ StartInvoice(c)
            \/ InvoiceItem(c)
            \/ InvoiceCommit(c)
            \/ InvoiceConflict(c)
            \/ StartExpense(c)
            \/ SaveExpense(c)
            \/ UpdateExpense(c)
            \/ DeleteExpense(c)
            \/ ExpenseError(c)
            \/ StartShift(c)
            \/ ShiftSetShift(c)
            \/ ShiftSetMarker(c)
            \/ ShiftError(c)
            \/ StartLoad(c)
            \/ LoadCollection(c)
            \/ LoadConfig(c)
            \/ StartSave(c)
            \/ SaveCollection(c)
            \/ SaveCommit(c)

Spec == Init /\ [][Next]_vars

----------------------------------------------------------------------------
(* saveData on its own: a working set edited by the application since it
   was loaded, saved while no other call is running *)

\* a record the application added to the working set without an id
Unsaved == [productId |-> "p1", color |-> "red", size |-> "M", quantity |-> 1]

\* the defects collection of the store
SyncStoredDefects ==
    { EmptyMap,
      [d1 |-> Defect("d1", "p1", "M", 2)],
      [d1 |-> Defect("d1", "p1", "M", 2), d2 |-> Defect("d2", "p1", "M", 3),
       d3 |-> Defect("d3", "p1", "L", 0)] }

\* state.defects
SyncDefects ==
    { <<>>,
      <<Defect("d1", "p1", "M", 3), Defect("d2", "p1", "M", 3)>>,
      <<Defect("d1", "p1", "M", 2), Unsaved, Defect("d2", "p1", "M", 3)>> }

\* state.products
SyncProducts == { <<>>, <<Shirt>>, <<[name |-> "sock", purchasePrice |-> 5], Shirt>> }

InitSync ==
    /\ \E defects \in SyncStoredDefects : db = [InitDb EXCEPT !.defects = defects]
    /\ config = InitConfig
    /\ now = 0
    /\ \E products \in SyncProducts, defects \in SyncDefects, t \in 0..MaxNow :
          state = [c \in Clients |->
                     [products |-> products, defects |-> defects,
                      shipments |-> <<>>, shifts |-> <<>>,
                      daily_expenses |-> <<>>,
                      lastShiftReportTime |-> t]]
    /\ call = [c \in Clients |-> Idle]
    /\ txn = [c \in Clients |-> NoTxn]
    /\ stale = [c \in Clients |-> {}]
    /\ local = [c \in Clients |-> NoLocal]
    /\ ncalls = 0

\* saveData is called while no other call is running
StartSaveAlone(c) ==
    /\ \A x \in Clients : call[x].pc = "done"
    /\ StartSave(c)

NextSync ==
    \E c \in Clients :
        \/ StartSaveAlone(c)
        \/ SaveCollection(c)
        \/ SaveCommit(c)

SpecSync == InitSync /\ [][NextSync]_vars

----------------------------------------------------------------------------
(* Properties *)

Colors == {"red"}
Sizes == {"M", "L"}
ProductIds == {"p1", "p2"}

\* the stored quantity of a variant, 0 when the product or the variant is absent
Stock(d, pid, color, size) ==
    IF Has(d.products, pid) THEN CurrentQty(d.products[pid], color, size) ELSE 0

\* session c's call of opname returns in this step
Returns(c, opname) ==
    /\ call[c].op = opname
    /\ call[c].pc # "done"
    /\ call'[c].pc = "done"

\* session c takes a step of its call of opname
Steps(c, opname) ==
    /\ call[c].op = opname
    /\ call[c].pc # "done"
    /\ (call'[c] # call[c] \/ local'[c] # local[c] \/ txn'[c] # txn[c])

Succeeded(c, opname) ==
    /\ call[c].op = opname
    /\ call[c].pc = "done"
    /\ call[c].result.success

FailedWith(c, opname, msg) ==
    /\ call[c].op = opname
    /\ call[c].pc = "done"
    /\ ~call[c].result.success
    /\ (IF opname = "addDefectiveItem" THEN call[c].result.error
        ELSE call[c].result.message) = msg

\* C1: in every reachable store state every stored variant quantity of
\* every product is >= 0.
StockNeverNegative ==
    \A pid \in DOMAIN db.products :
        \A color \in Colors, size \in Sizes :
            Stock(db, pid, color, size) >= 0

\* C1 witness: defects have consumed the whole stock of (red, M)
StockExhausted ==
    /\ Stock(db, "p1", "red", "M") = 0
    /\ \A c \in Clients : Succeeded(c, "addDefectiveItem")

\* C2: an addDefectiveItem call on a stored product that asks for more than
\* the stored quantity (absent variant = 0) returns failure and changes
\* neither the stock nor the defects; a call that succeeds asked for no more
\* than the stored quantity, leaves current - quantity and stores exactly
\* the record passed; with enough stock the only failure is a lost commit.
DefectOutcome ==
    [][\A c \in Clients :
         (Returns(c, "addDefectiveItem")
            /\ Has(db.products, call[c].arg.productId)) =>
           LET d   == call[c].arg
               cur == Stock(db, d.productId, d.color, d.size)
               res == call'[c].result
           IN  /\ d.quantity > cur =>
                     /\ ~res.success
                     /\ res.error = "InsufficientStock"
               /\ ~res.success => db' = db
               /\ (~res.success /\ d.quantity <= cur) =>
                     res.error = "FailedPrecondition"
               /\ res.success =>
                     /\ d.quantity <= cur
                     /\ Stock(db', d.productId, d.color, d.size) = cur - d.quantity
                     /\ db'.defects = Put(db.defects, d.id, d)
      ]_vars

\* C2 witness: 5 in stock, a defect of 3 stored, a second defect of 3 refused
SecondDefectRefused ==
    /\ Stock(db, "p1", "red", "M") = 2
    /\ \E c1, c2 \in Clients :
          /\ Succeeded(c1, "addDefectiveItem")
          /\ FailedWith(c2, "addDefectiveItem", "InsufficientStock")

\* C3: the check and the decrement of addDefectiveItem are one atomic step
\* on the store: a call that succeeds finds, in the store at the moment it
\* writes, at least its quantity and takes exactly its quantity from it,
\* and no other step of the call changes the store.
DefectAtomic ==
    [][\A c \in Clients :
         Steps(c, "addDefectiveItem") =>
           LET d == call[c].arg
           IN  IF call'[c].pc = "done" /\ call'[c].result.success
               THEN /\ d.quantity <= Stock(db, d.productId, d.color, d.size)
                    /\ Stock(db', d.productId, d.color, d.size)
                         = Stock(db, d.productId, d.color, d.size) - d.quantity
                    /\ \A pid \in ProductIds, color \in Colors, size \in Sizes :
                          <<pid, color, size>> # <<d.productId, d.color, d.size>>
                             => Stock(db', pid, color, size) = Stock(db, pid, color, size)
               ELSE db' = db
      ]_vars

\* C3 witness: two sessions wrote off the same variant at the same time; one
\* has committed and the other, having lost its commit, is running again
DefectRetrying ==
    \E c1, c2 \in Clients :
        /\ Succeeded(c1, "addDefectiveItem")
        /\ call[c2].op = "addDefectiveItem"
        /\ call[c2].pc = "commit"
        /\ txn[c2].attempts = MaxAttempts - 2
        /\ Stock(db, "p1", "red", "M") < 5

RECURSIVE ItemsCost(_)
ItemsCost(items) ==
    IF items = <<>> THEN 0
    ELSE Head(items).quantity * Head(items).purchasePrice + ItemsCost(Tail(items))

\* C4: every stored shipment record has totalCost = sum over its items of
\* quantity * purchasePrice (the shipping cost is not part of it).
TotalCostIsSumOfItems ==
    \A id \in DOMAIN db.shipments :
        db.shipments[id].totalCost = ItemsCost(db.shipments[id].items)

\* C4 witness: a stored shipment of two variants, 1 @ 20 and 2 @ 20
TwoItemShipment ==
    \E id \in DOMAIN db.shipments :
        /\ Len(db.shipments[id].items) = 2
        /\ db.shipments[id].totalCost = 60
        /\ db.shipments[id].shippingCost > 0

\* the positive quantities of an invoice, as <<productId, color, size, quantity>>
RECURSIVE PositiveTriples(_, _)
PositiveTriples(pid, quantities) ==
    IF quantities = <<>> THEN {}
    ELSE (IF Head(quantities)[3] > 0
          THEN {<<pid, Head(quantities)[1], Head(quantities)[2], Head(quantities)[3]>>}
          ELSE {}) \cup PositiveTriples(pid, Tail(quantities))

InvoiceTriples(inv) ==
    UNION {PositiveTriples(inv.items[i].productId, inv.items[i].quantities) :
              i \in 1..Len(inv.items)}

\* C5: saveNewInvoice is all-or-nothing: a step of the call either leaves
\* products, shipments and defects as they are, or is the successful return
\* and adds, in that one step, the shipment record and the stock of every
\* positive line; a call that returns failure has written nothing.
InvoiceAllOrNothing ==
    [][\A c \in Clients :
         Steps(c, "saveNewInvoice") =>
           \/ db' = db
           \/ /\ call'[c].pc = "done"
              /\ call'[c].result.success
              /\ Has(db'.shipments, call'[c].result.id)
              /\ \A tr \in InvoiceTriples(call[c].arg) :
                    Stock(db', tr[1], tr[2], tr[3]) = Stock(db, tr[1], tr[2], tr[3]) + tr[4]
      ]_vars

\* C5 witness: an invoice failed at its second line and nothing of it is stored
InvoiceFailedClean ==
    \E c \in Clients :
        /\ FailedWith(c, "saveNewInvoice", "ProductNotFound")
        /\ db = InitDb
        /\ ncalls = 1

\* C6: the invoice of one new product (10 @ 50) and one stored product
\* (5 @ 20, variant not in stock) commits: the call succeeds, the new
\* product is stored with 10, the stored product has 5 more, totalCost 600.
NewAndExistingCommits ==
    [][\A c \in Clients :
         (Returns(c, "saveNewInvoice") /\ call[c].arg = NewAndExistingInvoice) =>
           /\ call'[c].result.success
           /\ Has(db'.products, "p2")
           /\ Stock(db', "p2", "red", "M") = 10
           /\ Stock(db', "p1", "red", "L") = Stock(db, "p1", "red", "L") + 5
           /\ db'.shipments[call'[c].result.id].totalCost = 600
      ]_vars

\* C7: a saveNewInvoice with a line that is not flagged isNew and names a
\* product that is not stored, and an addDefectiveItem on a product that is
\* not stored, return failure and leave the store as it was.
MissingProductFails ==
    [][\A c \in Clients :
         /\ (/\ Returns(c, "saveNewInvoice")
             /\ \E i \in 1..Len(call[c].arg.items) :
                   /\ ~call[c].arg.items[i].isNew
                   /\ ~Has(db.products, call[c].arg.items[i].productId))
               => (~call'[c].result.success /\ db' = db)
         /\ (/\ Returns(c, "addDefectiveItem")
             /\ ~Has(db.products, call[c].arg.productId))
               => (/\ ~call'[c].result.success
                   /\ call'[c].result.error = "ProductNotFound"
                   /\ db' = db)
      ]_vars

\* C8: saveShift stores the shift record and sets the last-shift-end marker
\* in one step: a step of saveShift that changes the shifts collection
\* leaves the marker equal to the endedAt of the shift it stored.
ShiftAndMarkerTogether ==
    [][\A c \in Clients :
         (Steps(c, "saveShift") /\ db'.shifts # db.shifts) =>
            config'.lastShiftReportTime = call[c].arg.endedAt
      ]_vars

\* C9: the marker never moves back to an earlier time, and a saveShift that
\* returns success leaves it at the endedAt of its shift.
MarkerFollowsLastShift ==
    [][/\ config'.lastShiftReportTime >= config.lastShiftReportTime
       /\ \A c \in Clients :
            (Returns(c, "saveShift") /\ call'[c].result.success) =>
                config'.lastShiftReportTime = call[c].arg.endedAt
      ]_vars

\* C10: for every reachable store and every session's working set, running
\* saveData a second time with no other writer leaves the store, every
\* collection and the config document, as the first run left it.
SaveDataIdempotent ==
    \A c \in Clients :
        LET once  == SaveDataAlone([db |-> db, config |-> config], state[c])
            twice == SaveDataAlone(once, state[c])
        IN  twice = once

\* C10 witness: a saveData has run from a working set older than the store
\* (it removed the defect another session had recorded) and the store is
\* what one more run would leave
SavedFromOlderState ==
    \E c, c2 \in Clients :
        /\ call[c].op = "saveData"
        /\ call[c].pc = "done"
        /\ Succeeded(c2, "addDefectiveItem")
        /\ DOMAIN db.defects = {}
        /\ SaveDataAlone([db |-> db, config |-> config], state[c])
              = [db |-> db, config |-> config]

\* the ids of the records of a working-set array that carry an id
IdsOf(items) == {items[i].id : i \in {j \in 1..Len(items) : HasId(items[j])}}

\* C11: a saveData that ran with no concurrent writer leaves, in every
\* synced collection, exactly the documents whose ids the in-memory records
\* carry, each equal to its record: stored ids absent from the working set
\* are deleted and a record without an id creates no document and does not
\* stop the records after it.
SyncMirrorsWorkingSet ==
    [][\A c \in Clients :
         Returns(c, "saveData") =>
           \A i \in 1..Len(Collections) :
              LET coll  == Collections[i]
                  items == state[c][coll]
              IN  /\ DOMAIN db'[coll] = IdsOf(items)
                  /\ \A j \in 1..Len(items) :
                        HasId(items[j]) => db'[coll][items[j].id] = items[j]
      ]_vars

\* C11 witness: the store held d1, d2, d3; the working set holds d1, a
\* record without an id, and d2; after saveData the store holds d1 and d2
SyncedWithUnsavedRecord ==
    \E c \in Clients :
        /\ call[c].op = "saveData"
        /\ call[c].pc = "done"
        /\ ncalls = 1
        /\ Len(state[c].defects) = 3
        /\ ~HasId(state[c].defects[2])
        /\ DOMAIN db.defects = {"d1", "d2"}

CoreOps ==
    {"saveData", "saveShift", "addDefectiveItem", "saveNewInvoice",
     "saveDailyExpense", "updateDailyExpense", "deleteDailyExpense"}

\* C12: every core operation that has returned has returned a result with
\* a success flag, and a failure result carries a message field.
EveryCallReturnsResult ==
    \A c \in Clients :
        (call[c].op \in CoreOps /\ call[c].pc = "done") =>
            /\ Has(call[c].result, "success")
            /\ ~call[c].result.success => Has(call[c].result, "message")

\* C13: a stored defect record is never changed by addDefectiveItem: every
\* step of a call leaves every defect record already stored as it was.
DefectRecordsImmutable ==
    [][\A c \in Clients :
         Steps(c, "addDefectiveItem") =>
           \A id \in DOMAIN db.defects :
              Has(db'.defects, id) /\ db'.defects[id] = db.defects[id]
      ]_vars

\* C14: a saveNewInvoice that succeeds commits under a shipment id that was
\* not stored before, so no stored shipment record is overwritten.
ShipmentIdsFresh ==
    [][\A c \in Clients :
         (Returns(c, "saveNewInvoice") /\ call'[c].result.success) =>
            /\ ~Has(db.shipments, call'[c].result.id)
            /\ \A id \in DOMAIN db.shipments : db'.shipments[id] = db.shipments[id]
      ]_vars

\* the total quantity the items of a shipment record give for one variant
RECURSIVE ItemsQty(_, _, _, _)
ItemsQty(items, pid, color, size) ==
    IF items = <<>> THEN 0
    ELSE (IF /\ Head(items).productId = pid
             /\ Head(items).color = color
             /\ Head(items).size = size
          THEN Head(items).quantity ELSE 0)
         + ItemsQty(Tail(items), pid, color, size)

\* C15: the shipment record a saveNewInvoice commits, also after the update
\* function was run again, holds every positive (colour, size, quantity) of
\* the invoice exactly once and totalCost counts it once.
ShipmentListsEachLineOnce ==
    [][\A c \in Clients :
         (Returns(c, "saveNewInvoice") /\ call'[c].result.success) =>
            LET rec     == db'.shipments[call'[c].result.id]
                triples == InvoiceTriples(call[c].arg)
            IN  /\ Len(rec.items) = Cardinality(triples)
                /\ \A tr \in triples :
                      ItemsQty(rec.items, tr[1], tr[2], tr[3]) = tr[4]
                /\ rec.totalCost = ItemsCost(rec.items)
      ]_vars

RECURSIVE ShippedQty(_, _, _, _)
ShippedQty(shipments, pid, color, size) ==
    IF DOMAIN shipments = {} THEN 0
    ELSE LET id == CHOOSE x \in DOMAIN shipments : TRUE
         IN  ItemsQty(shipments[id].items, pid, color, size)
             + ShippedQty(Drop(shipments, id), pid, color, size)

\* the quantity all stored defect records give for one variant
RECURSIVE DefectedQty(_, _, _, _)
DefectedQty(defects, pid, color, size) ==
    IF DOMAIN defects = {} THEN 0
    ELSE LET id == CHOOSE x \in DOMAIN defects : TRUE
         IN  ItemsQty(<<defects[id]>>, pid, color, size)
             + DefectedQty(Drop(defects, id), pid, color, size)

\* stored quantity less what the stored shipments brought, plus what the
\* stored defects took: the initial quantity while nothing is lost
Balance(d, pid, color, size) ==
    Stock(d, pid, color, size) - ShippedQty(d.shipments, pid, color, size)
        + DefectedQty(d.defects, pid, color, size)

\* C17: a saveData never undoes what a transaction committed after the
\* working set was loaded: its steps keep every stored defect and shipment
\* record that the working set does not hold, and keep every variant's
\* stored quantity equal to the initial quantity plus the stored shipment
\* items minus the stored defect records.
SaveKeepsCommittedWork ==
    [][\A c \in Clients :
         Steps(c, "saveData") =>
            /\ \A id \in (DOMAIN db.defects) \ IdsOf(state[c].defects) :
                  Has(db'.defects, id)
            /\ \A id \in (DOMAIN db.shipments) \ IdsOf(state[c].shipments) :
                  Has(db'.shipments, id)
            /\ \A pid \in ProductIds, color \in Colors, size \in Sizes :
                  Balance(db', pid, color, size) = Balance(db, pid, color, size)
      ]_vars

\* C18: addDefectiveItem never increases stock: every step of a call leaves
\* every variant's stored quantity less than or equal to what it was.
DefectNeverAddsStock ==
    [][\A c \in Clients :
         Steps(c, "addDefectiveItem") =>
            \A pid \in ProductIds, color \in Colors, size \in Sizes :
               Stock(db', pid, color, size) <= Stock(db, pid, color, size)
      ]_vars

====
